---- MODULE Spec2Model ----
\* A model of gosimplifier (src/simplifier.go, package gosimplifier):
\* rule trees, their merge and compilation into rulers, the deep copier and
\* the reflective traversal that clears fields and deletes map entries.
EXTENDS Integers, Sequences, FiniteSets, TLC

\* ---------------------------------------------------------------------
\* Bounds of the model
\* ---------------------------------------------------------------------
MaxLen == 2        \* longest slice among the input values
MaxInt == 1        \* scalars range over 0..MaxInt (0 is the zero value)
MaxExtend == 2     \* ExtendSimplifier calls made in one behaviour

\* Field names and map keys.  "" is the empty name; "#1" stands for the
\* integer key 1 of a map whose key type is not string.  A field whose
\* name starts with a lower-case letter is unexported.
Names == {"A", "B"}
UnexportedNames == {"c"}
RuleNames == {"A", "B", "", "<int Value>"}

\* ---------------------------------------------------------------------
\* Values (reflect.Value).  A value is [kind, nil, val]:
\*   int     val is the number
\*   struct  val is a function from the field names to values
\*   slice   val is the sequence of elements; nil marks the nil slice
\*   ptr     val is the target; for a nil pointer val is the zero value of
\*           the target type (it only carries the type)
\*   map     val is the address of the map's storage in the heap; nil
\*           marks the nil map (address 0)
\*   invalid the zero reflect.Value (Elem() of a nil pointer)
\* Maps are reference types: every copy of a map value denotes the same
\* storage.  The heap maps an address to [iface, m]: m is the function
\* from the present keys to their values, iface says that the element
\* type is interface{} (MapIndex then yields a value of Kind Interface).
\* ---------------------------------------------------------------------
IntV(n) == [kind |-> "int", nil |-> FALSE, val |-> n]
StructV(f) == [kind |-> "struct", nil |-> FALSE, val |-> f]
SliceV(s) == [kind |-> "slice", nil |-> FALSE, val |-> s]
NilSlice == [kind |-> "slice", nil |-> TRUE, val |-> <<>>]
PtrV(t) == [kind |-> "ptr", nil |-> FALSE, val |-> t]
NilPtr(z) == [kind |-> "ptr", nil |-> TRUE, val |-> z]
MapV(a) == [kind |-> "map", nil |-> FALSE, val |-> a]
NilMap == [kind |-> "map", nil |-> TRUE, val |-> 0]
Invalid == [kind |-> "invalid", nil |-> TRUE, val |-> 0]

\* reflect.Zero(value.Type())
RECURSIVE Zero(_)
Zero(v) ==
  CASE v.kind = "int" -> IntV(0)
    [] v.kind = "struct" -> StructV([n \in DOMAIN v.val |-> Zero(v.val[n])])
    [] v.kind = "slice" -> NilSlice
    [] v.kind = "ptr" -> NilPtr(IF v.nil THEN v.val ELSE Zero(v.val))
    [] v.kind = "map" -> NilMap
    [] OTHER -> v

\* reflect.Value.String() of a map key: the string itself for a key of
\* Kind String, "<T Value>" for any other kind.
KeyString(k) == IF k = "#1" THEN "<int Value>" ELSE k

\* The function m without the key k (SetMapIndex with the zero Value).
DeleteKey(m, k) == [x \in (DOMAIN m) \ {k} |-> m[x]]

\* The elements of a finite set of strings in some order (Go leaves the
\* iteration order of a map unspecified).
RECURSIVE SetToSeq(_)
SetToSeq(S) ==
  IF S = {} THEN <<>>
  ELSE LET x == CHOOSE y \in S : TRUE IN <<x>> \o SetToSeq(S \ {x})

Range(s) == {s[i] : i \in DOMAIN s}

\* ---------------------------------------------------------------------
\* Rules.  A rule document is a tree: RemoveProperties is a list of names,
\* PropertySimplifiers a map from names to sub-documents.  In memory a
\* Rule is an object reached through a *Rule: the rule heap is the
\* sequence of the Rule objects allocated so far, an address is an index
\* into it, and the PropertySimplifiers of an object maps names to
\* addresses.
\* ---------------------------------------------------------------------
Rule(rm, ps) == [RemoveProperties |-> rm, PropertySimplifiers |-> ps]
NoRules == << >>

\* The rule document an object stands for.
RECURSIVE RuleAt(_, _)
RuleAt(rh, p) ==
  Rule(rh[p].RemoveProperties,
       [k \in DOMAIN rh[p].PropertySimplifiers |->
          RuleAt(rh, rh[p].PropertySimplifiers[k])])

\* json.Unmarshal([]byte(rulesJson), rule): the objects of a document are
\* allocated, the sub-rules named by names first.  The result is [h, p]:
\* the heap after the call and the address of the document's Rule.
RECURSIVE Unmarshal(_, _)
RECURSIVE UnmarshalSubRules(_, _, _, _)
UnmarshalSubRules(rh, names, docs, ps) ==
  IF names = <<>> THEN [h |-> rh, ps |-> ps]
  ELSE LET u == Unmarshal(rh, docs[Head(names)])
       IN UnmarshalSubRules(u.h, Tail(names), docs, ps @@ (Head(names) :> u.p))

Unmarshal(rh, doc) ==
  LET c == UnmarshalSubRules(rh, SetToSeq(DOMAIN doc.PropertySimplifiers),
                             doc.PropertySimplifiers, NoRules)
  IN [h |-> Append(c.h, Rule(doc.RemoveProperties, c.ps)), p |-> Len(c.h) + 1]

\* func contains(s []string, str string) bool
contains(s, str) == \E i \in DOMAIN s : s[i] = str

\* A merge in which a non-empty list of the new rule replaces the old list.
mergeRemovePropertiesReplacing(merged, props) ==
  IF props = <<>> THEN merged ELSE props

\* mergeRules, "Merge remove_properties": each name of the new rule is
\* appended unless the merged list holds it already.
RECURSIVE mergeRemoveProperties(_, _)
mergeRemoveProperties(merged, props) ==
  IF props = <<>> THEN merged
  ELSE mergeRemoveProperties(
         IF contains(merged, Head(props)) THEN merged
         ELSE Append(merged, Head(props)),
         Tail(props))

RECURSIVE mergeRules(_, _, _)

\* A merge in which a sub-rule of the new rule replaces the old rule's
\* sub-rule of the same name.
mergePropertySimplifiersReplacing(rh, keys, merged, new) ==
  [h |-> rh,
   ps |-> [k \in (DOMAIN merged) \cup Range(keys) |->
             IF k \in Range(keys) THEN new[k] ELSE merged[k]]]

\* mergeRules, "Merge property_simplifiers": the loop over the new rule's
\* sub-rules, merged being the new map, which starts as a copy of the old
\* rule's.  A name on both sides gets a newly merged Rule, a name on one
\* side keeps the *Rule it has.
RECURSIVE mergePropertySimplifiers(_, _, _, _)
mergePropertySimplifiers(rh, keys, merged, new) ==
  IF keys = <<>> THEN [h |-> rh, ps |-> merged]
  ELSE LET k == Head(keys)
       IN IF k \in DOMAIN merged
          THEN LET sub == mergeRules(rh, merged[k], new[k])
               IN mergePropertySimplifiers(sub.h, Tail(keys),
                                           [merged EXCEPT ![k] = sub.p], new)
          ELSE mergePropertySimplifiers(rh, Tail(keys),
                                        merged @@ (k :> new[k]), new)

\* A merge that fills the old rule's own map of sub-rules instead of a
\* copy of it.
mergeRulesAliasing(rh, rule, newRule) ==
  LET rm == mergeRemoveProperties(rh[rule].RemoveProperties,
                                  rh[newRule].RemoveProperties)
      c == mergePropertySimplifiers(
             rh, SetToSeq(DOMAIN rh[newRule].PropertySimplifiers),
             rh[rule].PropertySimplifiers, rh[newRule].PropertySimplifiers)
  IN [h |-> Append([c.h EXCEPT ![rule].PropertySimplifiers = c.ps], Rule(rm, c.ps)),
      p |-> Len(c.h) + 1]

\* func mergeRules(rule *Rule, newRule *Rule) *Rule
\* The result is [h, p]: the heap after the call and the merged Rule.
mergeRules(rh, rule, newRule) ==
  LET rm == mergeRemoveProperties(rh[rule].RemoveProperties,
                                  rh[newRule].RemoveProperties)
      c == mergePropertySimplifiers(
             rh, SetToSeq(DOMAIN rh[newRule].PropertySimplifiers),
             rh[rule].PropertySimplifiers, rh[newRule].PropertySimplifiers)
  IN [h |-> Append(c.h, Rule(rm, c.ps)), p |-> Len(c.h) + 1]

\* ---------------------------------------------------------------------
\* Rulers: the removeRuler singleton, or a simplifierImpl holding its
\* *Rule and one ruler per name.
\* ---------------------------------------------------------------------
removeRulerSingleton == [ruler |-> "removeRuler"]

RECURSIVE newSimplifier0(_, _)

\* A compilation that registers the removed names first and the sub-rules
\* after them.
createPropertySimplifiersRemoveFirst(rh, rule) ==
  [propName \in (DOMAIN rh[rule].PropertySimplifiers)
                   \cup Range(rh[rule].RemoveProperties) |->
     IF propName \in DOMAIN rh[rule].PropertySimplifiers
     THEN newSimplifier0(rh, rh[rule].PropertySimplifiers[propName])
     ELSE removeRulerSingleton]

\* func createPropertySimplifiers(rule *Rule) (map[string]ruler, error):
\* the sub-rules are compiled first, then every removed name is set to the
\* removeRuler, overwriting a sub-rule of the same name.
createPropertySimplifiers(rh, rule) ==
  [propName \in (DOMAIN rh[rule].PropertySimplifiers)
                   \cup Range(rh[rule].RemoveProperties) |->
     IF propName \in Range(rh[rule].RemoveProperties)
     THEN removeRulerSingleton
     ELSE newSimplifier0(rh, rh[rule].PropertySimplifiers[propName])]

\* func newSimplifier0(rule *Rule) (*simplifierImpl, error)
newSimplifier0(rh, rule) ==
  [ruler |-> "simplifierImpl",
   propertySimplifiers |-> createPropertySimplifiers(rh, rule),
   rule |-> rule]

\* ---------------------------------------------------------------------
\* func deepCopy(copy reflect.Value, original reflect.Value) reflect.Value
\* The result is [ret, slot, panic]: ret is the value returned, slot is
\* what the destination `copy` holds after the call, panic says that the
\* call panicked.  In the Ptr case the new pointer is assigned to the
\* local variable only, so the destination is left as it was; the callers
\* in the Slice and Struct cases drop the returned value.  A map falls to
\* the default case: copy.Set(original) stores the same map, not a new one.
\* copyRO and origRO say that copy, original were obtained through an
\* unexported field (reflect's flagRO, inherited by Field, Index and Elem):
\* Value.Set panics when its receiver or its argument is such a value.
\* ---------------------------------------------------------------------
Exported(name) == name \notin UnexportedNames
Copied(ret, slot) == [ret |-> ret, slot |-> slot, panic |-> FALSE]
Panicked == [ret |-> Invalid, slot |-> Invalid, panic |-> TRUE]

RECURSIVE deepCopy(_, _, _, _)

\* A copier whose Slice case stops one element short.
deepCopyShort(copy, original, copyRO, origRO) ==
  CASE original.kind = "ptr" ->
         IF original.nil THEN Copied(original, copy)
         ELSE LET t == deepCopy(Zero(original.val), original.val, FALSE, origRO)
              IN IF t.panic THEN Panicked ELSE Copied(PtrV(t.slot), copy)
    [] original.kind = "slice" ->
         LET items == [i \in 1..(Len(original.val) - 1) |->
                         deepCopy(Zero(original.val[i]), original.val[i], copyRO, origRO)]
             made == SliceV([i \in DOMAIN items |-> items[i].slot])
         IN IF copyRO \/ \E i \in DOMAIN items : items[i].panic
            THEN Panicked ELSE Copied(made, made)
    [] original.kind = "struct" ->
         LET fields == [n \in DOMAIN original.val |->
                          deepCopy(Zero(original.val[n]), original.val[n],
                                   copyRO \/ ~Exported(n), origRO \/ ~Exported(n))]
             made == StructV([n \in DOMAIN fields |-> fields[n].slot])
         IN IF copyRO \/ \E n \in DOMAIN fields : fields[n].panic
            THEN Panicked ELSE Copied(made, made)
    [] OTHER -> IF copyRO \/ origRO THEN Panicked ELSE Copied(original, original)

deepCopy(copy, original, copyRO, origRO) ==
  CASE original.kind = "ptr" ->
         IF original.nil THEN Copied(original, copy)
         ELSE LET t == deepCopy(Zero(original.val), original.val, FALSE, origRO)
              IN IF t.panic THEN Panicked ELSE Copied(PtrV(t.slot), copy)
    [] original.kind = "slice" ->
         LET items == [i \in DOMAIN original.val |->
                         deepCopy(Zero(original.val[i]), original.val[i], copyRO, origRO)]
             made == SliceV([i \in DOMAIN items |-> items[i].slot])
         IN IF copyRO \/ \E i \in DOMAIN items : items[i].panic
            THEN Panicked ELSE Copied(made, made)
    [] original.kind = "struct" ->
         LET fields == [n \in DOMAIN original.val |->
                          deepCopy(Zero(original.val[n]), original.val[n],
                                   copyRO \/ ~Exported(n), origRO \/ ~Exported(n))]
             made == StructV([n \in DOMAIN fields |-> fields[n].slot])
         IN IF copyRO \/ \E n \in DOMAIN fields : fields[n].panic
            THEN Panicked ELSE Copied(made, made)
    [] OTHER -> IF copyRO \/ origRO THEN Panicked ELSE Copied(original, original)

\* ---------------------------------------------------------------------
\* applyRules.  A call works on a value and on the heap; its result is
\* [v, h, del]: the value as the call leaves it, the heap as it leaves it,
\* and whether it deleted the entry valueKey of the parent map.  canSet is
\* value.CanSet(): true for the target of a pointer, for an element of a
\* slice and for a field of a settable struct; false for what MapIndex
\* returns and for the fields of such a struct.
\* ---------------------------------------------------------------------
Kept(value, heap) == [v |-> value, h |-> heap, del |-> FALSE]

\* func (s *removeRuler) applyRules(parent, value, valueKey)
removeRuler_applyRules(parentKind, value, canSet, hasKey, heap) ==
  CASE parentKind = "struct" ->
         IF value.kind # "invalid" /\ canSet
         THEN Kept(Zero(value), heap)
         ELSE Kept(value, heap)
    [] parentKind = "map" ->
         [v |-> value, h |-> heap, del |-> hasKey]
    [] OTHER -> Kept(value, heap)

\* A lookup that ignores the case of the name.
FieldByNameFold(fields, fieldName) ==
  LET upper == CASE fieldName = "a" -> "A" [] fieldName = "b" -> "B" [] OTHER -> fieldName
  IN [valid |-> upper \in DOMAIN fields, name |-> upper]

\* value.FieldByName(fieldName): which field of the struct the name
\* denotes, the one of that exact name; not valid when there is none.
\* A field found is skipped unless field.CanInterface(), which is false
\* for an unexported field.
FieldByName(fields, fieldName) ==
  [valid |-> fieldName \in DOMAIN fields, name |-> fieldName]

RECURSIVE simplifierImpl_applyRules(_, _, _, _)
RECURSIVE applyFields(_, _, _, _, _)
RECURSIVE applyItems(_, _, _, _)
RECURSIVE applyKeys(_, _, _, _)

\* The call subSimplifier.applyRules(parent, value, valueKey), dispatched
\* on the dynamic type of the ruler.
ruler_applyRules(sub, parentKind, value, canSet, hasKey, heap) ==
  IF sub.ruler = "removeRuler"
  THEN removeRuler_applyRules(parentKind, value, canSet, hasKey, heap)
  ELSE simplifierImpl_applyRules(sub, value, canSet, heap)

\* applyRules, case reflect.Slice of a field: the ruler of the field is
\* applied to every element from index i on, through the element's
\* pointer when the element is one; the parent passed is the struct.
applyItems(sub, items, i, heap) ==
  IF i > Len(items) THEN Kept(items, heap)
  ELSE LET e == items[i]
           isPtr == e.kind = "ptr"
           item == IF isPtr THEN (IF e.nil THEN Invalid ELSE e.val) ELSE e
           r == ruler_applyRules(sub, "struct", item, TRUE, FALSE, heap)
           e2 == IF isPtr THEN (IF e.nil THEN e ELSE PtrV(r.v)) ELSE r.v
       IN applyItems(sub, [items EXCEPT ![i] = e2], i + 1, r.h)

\* A loop that, once the names are done, hands the rules of this scope on
\* to every nested record that has no ruler of its own.
applyFieldsPassThrough(s, names, fields, canSet, heap) ==
  IF names = <<>>
  THEN Kept([n \in DOMAIN fields |->
               IF n \notin DOMAIN s.propertySimplifiers /\ Exported(n)
                    /\ fields[n].kind = "struct"
               THEN simplifierImpl_applyRules(s, fields[n], canSet, heap).v
               ELSE fields[n]], heap)
  ELSE LET fieldName == Head(names)
           subSimplifier == s.propertySimplifiers[fieldName]
           found == FieldByName(fields, fieldName)
       IN IF ~found.valid \/ ~Exported(found.name)
          THEN applyFields(s, Tail(names), fields, canSet, heap)
          ELSE LET field == fields[found.name]
                   r == IF field.kind = "slice"
                        THEN LET ri == applyItems(subSimplifier, field.val, 1, heap)
                             IN Kept([field EXCEPT !.val = ri.v], ri.h)
                        ELSE ruler_applyRules(subSimplifier, "struct", field,
                                              canSet, FALSE, heap)
               IN applyFields(s, Tail(names),
                              [fields EXCEPT ![found.name] = r.v], canSet, r.h)

\* applyRules, case reflect.Struct: the loop over s.propertySimplifiers,
\* names being the names still to visit and fields the struct's fields.
applyFields(s, names, fields, canSet, heap) ==
  IF names = <<>> THEN Kept(fields, heap)
  ELSE LET fieldName == Head(names)
           subSimplifier == s.propertySimplifiers[fieldName]
           found == FieldByName(fields, fieldName)
       IN IF ~found.valid \/ ~Exported(found.name)
          THEN applyFields(s, Tail(names), fields, canSet, heap)
          ELSE LET field == fields[found.name]
                   r == IF field.kind = "slice"
                        THEN LET ri == applyItems(subSimplifier, field.val, 1, heap)
                             IN Kept([field EXCEPT !.val = ri.v], ri.h)
                        ELSE ruler_applyRules(subSimplifier, "struct", field,
                                              canSet, FALSE, heap)
               IN applyFields(s, Tail(names),
                              [fields EXCEPT ![found.name] = r.v], canSet, r.h)

\* applyRules, case reflect.Map: the loop over value.MapKeys() of the map
\* stored at address a.
applyKeys(s, keys, a, heap) ==
  IF keys = <<>> THEN heap
  ELSE LET key == Head(keys)
           stored == heap[a].m[key]
           isPtr == ~heap[a].iface /\ stored.kind = "ptr"
           subValue == IF heap[a].iface
                       THEN [kind |-> "interface", nil |-> FALSE, val |-> stored]
                       ELSE IF isPtr THEN stored.val ELSE stored
       IN IF KeyString(key) \notin DOMAIN s.propertySimplifiers
          THEN applyKeys(s, Tail(keys), a, heap)
          ELSE IF isPtr /\ stored.nil
          THEN applyKeys(s, Tail(keys), a, heap)
          ELSE LET r == ruler_applyRules(s.propertySimplifiers[KeyString(key)],
                                         "map", subValue, isPtr, TRUE, heap)
                   left == IF heap[a].iface THEN stored
                           ELSE IF isPtr THEN PtrV(r.v) ELSE r.v
                   h2 == IF r.del
                         THEN [r.h EXCEPT ![a].m = DeleteKey(@, key)]
                         ELSE [r.h EXCEPT ![a].m[key] = left]
               IN applyKeys(s, Tail(keys), a, h2)

\* A traversal that also walks a sequence it is handed, element by element.
simplifierImpl_applyRulesItems(s, value, canSet, heap) ==
  LET isPtr == value.kind = "ptr"
      target == IF isPtr /\ ~value.nil THEN value.val ELSE value
      settable == IF isPtr THEN TRUE ELSE canSet
  IN IF isPtr /\ value.nil THEN Kept(value, heap)
     ELSE CASE target.kind = "struct" ->
                 LET r == applyFields(s, SetToSeq(DOMAIN s.propertySimplifiers),
                                      target.val, settable, heap)
                     t2 == StructV(r.v)
                 IN Kept(IF isPtr THEN PtrV(t2) ELSE t2, r.h)
            [] target.kind = "map" ->
                 IF target.nil THEN Kept(value, heap)
                 ELSE Kept(value,
                           applyKeys(s, SetToSeq(DOMAIN heap[target.val].m),
                                     target.val, heap))
            [] target.kind = "slice" ->
                 LET r == applyItems(s, target.val, 1, heap)
                     t2 == [target EXCEPT !.val = r.v]
                 IN Kept(IF isPtr THEN PtrV(t2) ELSE t2, r.h)
            [] OTHER -> Kept(value, heap)

\* func (s *simplifierImpl) applyRules(parent, value, valueKey)
simplifierImpl_applyRules(s, value, canSet, heap) ==
  LET isPtr == value.kind = "ptr"
      target == IF isPtr /\ ~value.nil THEN value.val ELSE value
      settable == IF isPtr THEN TRUE ELSE canSet
  IN IF isPtr /\ value.nil THEN Kept(value, heap)
     ELSE CASE target.kind = "struct" ->
                 LET r == applyFields(s, SetToSeq(DOMAIN s.propertySimplifiers),
                                      target.val, settable, heap)
                     t2 == StructV(r.v)
                 IN Kept(IF isPtr THEN PtrV(t2) ELSE t2, r.h)
            [] target.kind = "map" ->
                 IF target.nil THEN Kept(value, heap)
                 ELSE Kept(value,
                           applyKeys(s, SetToSeq(DOMAIN heap[target.val].m),
                                     target.val, heap))
            [] OTHER -> Kept(value, heap)

\* func (s *simplifierImpl) Simplify(original interface{}) (interface{}, error)
\* The result is [v, h, panic]: the value returned with a nil error and
\* the heap after the call, or panic when deepCopy panicked (nothing is
\* returned then, and applyRules has not run).  The only error value the
\* function returns is nil.
Simplify(s, original, heap) ==
  LET copy == deepCopy(Zero(original), original, FALSE, FALSE)
      r == simplifierImpl_applyRules(s, copy.ret, TRUE, heap)
  IN IF copy.panic THEN [v |-> Invalid, h |-> heap, panic |-> TRUE]
     ELSE [v |-> r.v, h |-> r.h, panic |-> FALSE]

\* ---------------------------------------------------------------------
\* The input values and rules of the Simplify calls
\* ---------------------------------------------------------------------
Leaf(a, b) == StructV([A |-> IntV(a), B |-> IntV(b)])
Ints == {IntV(n) : n \in 0..MaxInt}
Leaves == {Leaf(a, b) : a, b \in 0..MaxInt}
SeqsOf(E) == UNION {[1..n -> E] : n \in 0..MaxLen}
StructSlices == {SliceV(s) : s \in SeqsOf({Leaf(1, b) : b \in 0..MaxInt})}
PtrSlices == {SliceV(s) : s \in SeqsOf({NilPtr(Leaf(0, 0)), PtrV(Leaf(1, 1))})}
IntSlices == {SliceV(s) : s \in SeqsOf({IntV(1)})}
Pointers == {NilPtr(Leaf(0, 0)), PtrV(Leaf(1, 1))}
FieldValues ==
  Ints \cup Leaves \cup {NilSlice} \cup StructSlices \cup PtrSlices
       \cup IntSlices \cup Pointers \cup {NilMap, MapV(1)}
Records == {StructV([A |-> x, B |-> IntV(1)]) : x \in FieldValues}
\* Records with an unexported field c, at the top and one level down.
EmptyStruct == StructV(<<>>)
HiddenValues ==
  Ints \cup {NilPtr(Leaf(0, 0)), PtrV(Leaf(1, 1)), PtrV(EmptyStruct), NilSlice,
             Leaf(1, 1)}
Hidden(x) == StructV([A |-> IntV(1), B |-> IntV(1), c |-> x])
HiddenRecords ==
  {Hidden(x) : x \in HiddenValues}
    \cup {StructV([A |-> Hidden(x), B |-> IntV(1)]) : x \in HiddenValues}
\* Sequences passed to Simplify themselves, or through a pointer.
TopSlices ==
  StructSlices \cup PtrSlices \cup IntSlices \cup {NilSlice, SliceV(<<MapV(1)>>)}
InputValues ==
  Records \cup {PtrV(t) : t \in Records} \cup {NilPtr(Leaf(0, 0))}
          \cup {MapV(1), NilMap, PtrV(MapV(1))} \cup Ints
          \cup TopSlices \cup {PtrV(t) : t \in StructSlices}
          \cup HiddenRecords \cup {PtrV(t) : t \in HiddenRecords}

\* What the storage of map 1 may hold: one element type per map.
PartialFns(K, V) == UNION {[D -> V] : D \in SUBSET K}
WithSlice == StructV([A |-> SliceV(<<IntV(1)>>), B |-> IntV(1)])
Cells ==
  {[iface |-> FALSE, m |-> f] :
     f \in PartialFns(Names, Ints) \cup PartialFns(Names, {Leaf(1, 1)})
           \cup PartialFns(Names, Pointers) \cup PartialFns({"A"}, {MapV(2)})
           \cup PartialFns(Names, {WithSlice}) \cup PartialFns({"#1"}, {IntV(1)})}
  \cup {[iface |-> TRUE, m |-> f] : f \in PartialFns(Names, {IntV(1), Leaf(1, 1)})}
Cell2 == [iface |-> FALSE, m |-> [A |-> IntV(1), B |-> IntV(1)]]
EmptyCell == [iface |-> FALSE, m |-> NoRules]

\* Whether the value reaches map storage.
RECURSIVE HasMap(_)
HasMap(v) ==
  CASE v.kind = "map" -> ~v.nil
    [] v.kind = "ptr" -> ~v.nil /\ HasMap(v.val)
    [] v.kind = "struct" -> \E n \in DOMAIN v.val : HasMap(v.val[n])
    [] v.kind = "slice" -> \E i \in DOMAIN v.val : HasMap(v.val[i])
    [] OTHER -> FALSE

Inputs ==
  {[v |-> x, h |-> <<c, Cell2>>] : x \in {y \in InputValues : HasMap(y)}, c \in Cells}
  \cup {[v |-> x, h |-> <<EmptyCell, Cell2>>] : x \in {y \in InputValues : ~HasMap(y)}}

RemoveLists == {<<>>, <<"A">>, <<"B">>, <<"A", "B">>, <<"">>, <<"<int Value>">>}
LeafRules == {Rule(rm, NoRules) : rm \in {<<"A">>, <<"B">>, <<"A", "B">>}}
ChildRulesA == LeafRules \cup {Rule(<<>>, NoRules), Rule(<<>>, [A |-> Rule(<<"A">>, NoRules)])}
ChildRulesB == {Rule(<<"A">>, NoRules)}
ChildMaps ==
  {NoRules} \cup {[A |-> a] : a \in ChildRulesA} \cup {[B |-> b] : b \in ChildRulesB}
            \cup {[A |-> a, B |-> b] : a \in ChildRulesA, b \in ChildRulesB}
SimplifyRules == {Rule(rm, ps) : rm \in RemoveLists, ps \in ChildMaps}

\* The rule documents of the merge laws.
MergeRemoveLists == {<<>>, <<"A">>, <<"B">>, <<"B", "A">>, <<"A", "A">>}
MergeChildMaps ==
  {NoRules, [A |-> Rule(<<"A">>, NoRules)], [A |-> Rule(<<"B">>, NoRules)],
   [B |-> Rule(<<"A">>, NoRules)],
   [A |-> Rule(<<>>, [A |-> Rule(<<"A">>, NoRules)])],
   [A |-> Rule(<<"B">>, NoRules), B |-> Rule(<<"B">>, NoRules)]}
MergeRules == {Rule(rm, ps) : rm \in MergeRemoveLists, ps \in MergeChildMaps}

\* The rule documents and inputs of the extension scenario.
ExtendRules ==
  {Rule(<<"A">>, NoRules), Rule(<<"B">>, [A |-> Rule(<<"A">>, NoRules)]),
   Rule(<<>>, [A |-> Rule(<<"B">>, NoRules)]),
   Rule(<<>>, [B |-> Rule(<<"A">>, NoRules)])}
BaseRules ==
  ExtendRules
    \cup {Rule(<<>>, NoRules), Rule(<<"A">>, [A |-> Rule(<<"B">>, NoRules)]),
          Rule(<<>>, [A |-> Rule(<<"A">>, [A |-> Rule(<<"B">>, NoRules)])])}
Probes ==
  {[v |-> StructV([A |-> Leaf(1, 1), B |-> IntV(1)]), h |-> <<EmptyCell, Cell2>>],
   [v |-> MapV(1),
    h |-> <<[iface |-> FALSE, m |-> [A |-> PtrV(Leaf(1, 1)), B |-> PtrV(Leaf(1, 1))]],
            Cell2>>]}

\* ---------------------------------------------------------------------
\* State
\* ---------------------------------------------------------------------
VARIABLES
  pc,          \* what the caller has done so far
  rule,        \* the rule document the first simplifier was made from
  ruleHeap,    \* the Rule objects allocated so far
  simplifiers, \* the simplifiers made so far, in order of creation
  created,     \* for each simplifier, what it was when it was made
  target,      \* which simplifier the last Simplify call was made on
  original,    \* the value the caller passes to Simplify
  heap0,       \* map storage before the first call
  heap,        \* map storage now
  result,      \* what the first Simplify call returned
  heap1,       \* map storage when the first call returned
  result2,     \* what Simplify returned for the first call's result
  ruleA,       \* three rules to merge (*Rule, 0 when unused)
  ruleB,
  ruleC,
  mergedAB,    \* mergeRules(ruleA, ruleB), 0 before it is called
  mergedBA,    \* mergeRules(ruleB, ruleA)
  mergedAB_C,  \* mergeRules(mergeRules(ruleA, ruleB), ruleC)
  mergedA_BC   \* mergeRules(ruleA, mergeRules(ruleB, ruleC))

simplifyVars == <<original, heap0, heap, result, heap1, result2>>
mergeVars == <<ruleA, ruleB, ruleC, mergedAB, mergedBA, mergedAB_C, mergedA_BC>>
vars == <<pc, rule, ruleHeap, simplifiers, created, target, simplifyVars, mergeVars>>

\* What is kept of a simplifier when it is made: the simplifier and the
\* rule document its Rule stood for.
Snapshot(rh, s) == [impl |-> s, doc |-> RuleAt(rh, s.rule)]

NoMerge ==
  /\ ruleA = 0 /\ ruleB = 0 /\ ruleC = 0
  /\ mergedAB = 0 /\ mergedBA = 0 /\ mergedAB_C = 0 /\ mergedA_BC = 0

\* func NewSimplifier(rulesJson string) (Simplifier, error), for a
\* document that parses, as the first simplifier of a behaviour.
NewSimplifier(doc) ==
  LET u == Unmarshal(<<>>, doc)
      s == newSimplifier0(u.h, u.p)
  IN /\ rule = doc
     /\ ruleHeap = u.h
     /\ simplifiers = <<s>>
     /\ created = <<Snapshot(u.h, s)>>

\* ---------------------------------------------------------------------
\* Spec: one simplifier, Simplify called on an input and on its result
\* ---------------------------------------------------------------------
Init ==
  /\ pc = "ready"
  /\ \E doc \in SimplifyRules : NewSimplifier(doc)
  /\ \E in \in Inputs : original = in.v /\ heap0 = in.h /\ heap = in.h /\ heap1 = in.h
  /\ result = Invalid
  /\ result2 = Invalid
  /\ target = 0
  /\ NoMerge

\* simplified, err := simplifier.Simplify(original); the caller is at
\* "simplified" when the call returned and at "panicked" when it did not.
SimplifyCall ==
  /\ pc = "ready"
  /\ LET r == Simplify(simplifiers[1], original, heap)
     IN /\ result' = r.v /\ heap' = r.h /\ heap1' = r.h
        /\ pc' = IF r.panic THEN "panicked" ELSE "simplified"
  /\ target' = 1
  /\ UNCHANGED <<rule, ruleHeap, simplifiers, created, original, heap0, result2, mergeVars>>

\* again, err := simplifier.Simplify(simplified)
SimplifyAgain ==
  /\ pc = "simplified"
  /\ LET r == Simplify(simplifiers[1], result, heap)
     IN /\ result2' = r.v /\ heap' = r.h
        /\ pc' = IF r.panic THEN "panicked" ELSE "again"
  /\ UNCHANGED <<rule, ruleHeap, simplifiers, created, target, original, heap0,
                 result, heap1, mergeVars>>

Next == SimplifyCall \/ SimplifyAgain

Spec == Init /\ [][Next]_vars

\* ---------------------------------------------------------------------
\* SpecMerge: mergeRules applied to three rules
\* ---------------------------------------------------------------------
NoSimplify ==
  /\ original = Invalid /\ result = Invalid /\ result2 = Invalid
  /\ heap0 = <<>> /\ heap = <<>> /\ heap1 = <<>>
  /\ target = 0

InitMerge ==
  /\ pc = "ready"
  /\ \E a \in MergeRules, b \in MergeRules, c \in MergeRules :
       LET ua == Unmarshal(<<>>, a)
           ub == Unmarshal(ua.h, b)
           uc == Unmarshal(ub.h, c)
       IN /\ ruleHeap = uc.h
          /\ ruleA = ua.p /\ ruleB = ub.p /\ ruleC = uc.p
  /\ mergedAB = 0 /\ mergedBA = 0 /\ mergedAB_C = 0 /\ mergedA_BC = 0
  /\ rule = Rule(<<>>, NoRules)
  /\ simplifiers = <<>>
  /\ created = <<>>
  /\ NoSimplify

\* mergeRules(ruleA, ruleB) and mergeRules(ruleB, ruleA)
MergeTwo ==
  /\ pc = "ready"
  /\ LET ab == mergeRules(ruleHeap, ruleA, ruleB)
         ba == mergeRules(ab.h, ruleB, ruleA)
     IN /\ mergedAB' = ab.p
        /\ mergedBA' = ba.p
        /\ ruleHeap' = ba.h
  /\ pc' = "merged"
  /\ UNCHANGED <<rule, simplifiers, created, target, simplifyVars,
                 ruleA, ruleB, ruleC, mergedAB_C, mergedA_BC>>

\* mergeRules(mergeRules(ruleA, ruleB), ruleC) and
\* mergeRules(ruleA, mergeRules(ruleB, ruleC))
MergeThree ==
  /\ pc = "merged"
  /\ LET abc == mergeRules(ruleHeap, mergedAB, ruleC)
         bc == mergeRules(abc.h, ruleB, ruleC)
         a_bc == mergeRules(bc.h, ruleA, bc.p)
     IN /\ mergedAB_C' = abc.p
        /\ mergedA_BC' = a_bc.p
        /\ ruleHeap' = a_bc.h
  /\ pc' = "merged3"
  /\ UNCHANGED <<rule, simplifiers, created, target, simplifyVars,
                 ruleA, ruleB, ruleC, mergedAB, mergedBA>>

NextMerge == MergeTwo \/ MergeThree

SpecMerge == InitMerge /\ [][NextMerge]_vars

\* ---------------------------------------------------------------------
\* SpecExtend: a base simplifier, extended and used in any order
\* ---------------------------------------------------------------------
InitExtend ==
  /\ pc = "ready"
  /\ \E doc \in BaseRules : NewSimplifier(doc)
  /\ original = Invalid /\ result = Invalid /\ result2 = Invalid
  /\ heap0 = <<>> /\ heap = <<>> /\ heap1 = <<>>
  /\ target = 0
  /\ NoMerge

\* func ExtendSimplifier(base Simplifier, rulesJson string) (Simplifier, error)
\* for the base simplifiers[b] and a document that parses.
ExtendSimplifier(b, doc) ==
  /\ Len(simplifiers) <= MaxExtend
  /\ LET newRule == Unmarshal(ruleHeap, doc)
         mergedRule == mergeRules(newRule.h, simplifiers[b].rule, newRule.p)
         s == newSimplifier0(mergedRule.h, mergedRule.p)
     IN /\ ruleHeap' = mergedRule.h
        /\ simplifiers' = Append(simplifiers, s)
        /\ created' = Append(created, Snapshot(mergedRule.h, s))
  /\ UNCHANGED <<pc, rule, target, simplifyVars, mergeVars>>

\* simplifiers[i].Simplify(in), the caller's value and map storage being in
SimplifyOn(i, in) ==
  /\ LET r == Simplify(simplifiers[i], in.v, in.h)
     IN /\ result' = r.v
        /\ heap' = r.h
        /\ heap1' = r.h
  /\ original' = in.v
  /\ heap0' = in.h
  /\ target' = i
  /\ UNCHANGED <<pc, rule, ruleHeap, simplifiers, created, result2, mergeVars>>

NextExtend ==
  \/ \E b \in DOMAIN simplifiers, doc \in ExtendRules : ExtendSimplifier(b, doc)
  \/ \E i \in DOMAIN simplifiers, in \in Probes : SimplifyOn(i, in)

SpecExtend == InitExtend /\ [][NextExtend]_vars

\* A value with every map replaced by what its storage holds.
RECURSIVE Deref(_, _)
Deref(v, h) ==
  CASE v.kind = "map" ->
         IF v.nil THEN v
         ELSE [kind |-> "map", nil |-> FALSE, iface |-> h[v.val].iface,
               val |-> [k \in DOMAIN h[v.val].m |-> Deref(h[v.val].m[k], h)]]
    [] v.kind = "ptr" -> IF v.nil THEN v ELSE PtrV(Deref(v.val, h))
    [] v.kind = "struct" -> StructV([n \in DOMAIN v.val |-> Deref(v.val[n], h)])
    [] v.kind = "slice" ->
         IF v.nil THEN v ELSE SliceV([i \in DOMAIN v.val |-> Deref(v.val[i], h)])
    [] OTHER -> v


\* ---------------------------------------------------------------------
\* Properties of Simplify
\* ---------------------------------------------------------------------
\* The record or map a call works on: the value itself, or the target of
\* a top-level pointer.
Root(v) == IF v.kind = "ptr" /\ ~v.nil THEN v.val ELSE v

Compiled == simplifiers[1].propertySimplifiers
HasRemove(ps, n) == n \in DOMAIN ps /\ ps[n].ruler = "removeRuler"
HasDescend(ps, n) == n \in DOMAIN ps /\ ps[n].ruler = "simplifierImpl"

\* What the copier alone makes of the input.
PlainCopy == deepCopy(Zero(original), original, FALSE, FALSE).ret
RuleActed == Deref(result, heap1) # Deref(PlainCopy, heap0)

\* The nil slice and the empty slice taken as one.
RECURSIVE NormSlices(_)
NormSlices(v) ==
  CASE v.kind = "slice" -> SliceV([i \in DOMAIN v.val |-> NormSlices(v.val[i])])
    [] v.kind = "ptr" -> IF v.nil THEN v ELSE PtrV(NormSlices(v.val))
    [] v.kind = "struct" -> StructV([n \in DOMAIN v.val |-> NormSlices(v.val[n])])
    [] v.kind = "map" ->
         IF v.nil THEN v
         ELSE [v EXCEPT !.val = [k \in DOMAIN v.val |-> NormSlices(v.val[k])]]
    [] OTHER -> v

\* C1: Simplify leaves the caller's value as it was, structurally and by
\* value: whatever is reachable from the original is the same after the
\* call as before it.
C1_NonMutation ==
  pc # "ready" => Deref(original, heap) = Deref(original, heap0)

\* C2: simplifying the result of Simplify once more with the same rules
\* gives an equal value.
C2_Idempotence ==
  pc = "again" => Deref(result2, heap) = Deref(result, heap1)

C2_Witness ==
  pc = "again" /\ RuleActed /\ Root(original).kind \in {"struct", "map"}

IsZeroOrEmpty(v) == v = Zero(v) \/ (v.kind = "slice" /\ v.val = <<>>)

\* C3: in the result, every field of the record whose name has a Remove
\* action at the record's scope holds the zero or empty value of its
\* type, whatever that type is.
C3_RecordRemoval ==
  (pc = "simplified" /\ Root(original).kind = "struct") =>
     \A n \in DOMAIN Root(original).val :
        HasRemove(Compiled, n) =>
           /\ n \in DOMAIN Root(result).val
           /\ IsZeroOrEmpty(Root(result).val[n])

\* C4: when Simplify is applied to a map, every present key whose string
\* form has a Remove action is absent from the result, every other key is
\* present, and the value of a key without any action is unchanged.
C4_MapRemoval ==
  (pc = "simplified" /\ Root(original).kind = "map" /\ ~Root(original).nil) =>
     LET a == Root(original).val
         before == heap0[a].m
         after == heap1[Root(result).val].m
     IN \A k \in DOMAIN before :
          IF HasRemove(Compiled, KeyString(k))
          THEN k \notin DOMAIN after
          ELSE /\ k \in DOMAIN after
               /\ KeyString(k) \notin DOMAIN Compiled =>
                    Deref(after[k], heap1) = Deref(before[k], heap0)

\* The fields of an element after the child rules: cleared where the
\* child removes the name, equal to the input's elsewhere.
RedactedBy(child, e, o) ==
  /\ o.kind = "struct"
  /\ DOMAIN o.val = DOMAIN e.val
  /\ \A f \in DOMAIN e.val :
       o.val[f] = IF HasRemove(child.propertySimplifiers, f)
                  THEN Zero(e.val[f]) ELSE e.val[f]

ElementRedacted(child, e, o) ==
  CASE e.kind = "struct" -> RedactedBy(child, e, o)
    [] e.kind = "ptr" ->
         IF e.nil THEN o = e
         ELSE o.kind = "ptr" /\ ~o.nil /\ RedactedBy(child, e.val, o.val)
    [] OTHER -> o = e

\* C5: a slice field whose name has a Descend action keeps its length and
\* order, and the child rules are applied to every element, also to one
\* held through a non-nil pointer.
C5_ElementWise ==
  (pc = "simplified" /\ Root(original).kind = "struct") =>
     \A n \in DOMAIN Root(original).val :
        (Root(original).val[n].kind = "slice" /\ HasDescend(Compiled, n)) =>
           LET in == Root(original).val[n].val
               out == Root(result).val[n].val
           IN /\ Len(out) = Len(in)
              /\ \A i \in DOMAIN in : ElementRedacted(Compiled[n], in[i], out[i])

\* C8: with a rule that removes nothing and has no nested scope the
\* result has the shape and content of the input; a nil pointer stays nil
\* and a non-nil pointer leads to a copy of the same content.
C8_CopyFidelity ==
  (pc = "simplified" /\ rule = Rule(<<>>, NoRules)) =>
     NormSlices(Deref(result, heap1)) = NormSlices(Deref(original, heap0))

\* The names in use at the scope of a record or map: its field names, or
\* the string forms of its keys.
ScopeNames(root, h) ==
  CASE root.kind = "struct" -> DOMAIN root.val
    [] root.kind = "map" ->
         IF root.nil THEN {} ELSE {KeyString(k) : k \in DOMAIN h[root.val].m}
    [] OTHER -> {}

\* The names in use anywhere in a value.
RECURSIVE AllNames(_, _)
AllNames(v, h) ==
  CASE v.kind = "struct" ->
         (DOMAIN v.val) \cup UNION {AllNames(v.val[n], h) : n \in DOMAIN v.val}
    [] v.kind = "slice" -> UNION {AllNames(v.val[i], h) : i \in DOMAIN v.val}
    [] v.kind = "ptr" -> IF v.nil THEN {} ELSE AllNames(v.val, h)
    [] v.kind = "map" ->
         IF v.nil THEN {}
         ELSE ScopeNames(v, h)
                \cup UNION {AllNames(h[v.val].m[k], h) : k \in DOMAIN h[v.val].m}
    [] OTHER -> {}

\* Names a rule may mention that an input may lack.
UnknownNames == RuleNames \cup {"a", "Z"}

\* The rule with one more removed name, and with one more nested scope.
AddRemove(r, n) == Rule(Append(r.RemoveProperties, n), r.PropertySimplifiers)
AddScope(r, n) ==
  Rule(r.RemoveProperties,
       [k \in (DOMAIN r.PropertySimplifiers) \cup {n} |->
          IF k = n THEN Rule(<<"A">>, NoRules) ELSE r.PropertySimplifiers[k]])
AddRemoveBelow(r, c, n) ==
  Rule(r.RemoveProperties,
       [r.PropertySimplifiers EXCEPT ![c] = AddRemove(@, n)])

SameAsResult(r) ==
  LET u == Unmarshal(<<>>, r)
  IN Simplify(newSimplifier0(u.h, u.p), original, heap0)
       = [v |-> result, h |-> heap1, panic |-> FALSE]

\* C9: a rule naming a field or key the input lacks (the empty name
\* included) gives the result the rule gives without that name.
C9_UnknownName ==
  pc = "simplified" =>
     /\ \A n \in UnknownNames \ ScopeNames(Root(original), heap0) :
          /\ SameAsResult(AddRemove(rule, n))
          /\ n \notin DOMAIN rule.PropertySimplifiers => SameAsResult(AddScope(rule, n))
     /\ \A n \in UnknownNames \ AllNames(original, heap0) :
          \A c \in DOMAIN rule.PropertySimplifiers :
             SameAsResult(AddRemoveBelow(rule, c, n))

C9_Witness ==
  /\ pc = "simplified"
  /\ RuleActed
  /\ Root(original).kind = "struct"
  /\ "a" \notin ScopeNames(Root(original), heap0)
  /\ DOMAIN rule.PropertySimplifiers # {}

\* ---------------------------------------------------------------------
\* Properties of mergeRules and ExtendSimplifier
\* ---------------------------------------------------------------------
DocA == RuleAt(ruleHeap, ruleA)
DocB == RuleAt(ruleHeap, ruleB)
DocC == RuleAt(ruleHeap, ruleC)
RemoveNames(doc) == Range(doc.RemoveProperties)

\* The names the ruler compiled from a Rule removes at its own scope.
CompiledRemoveNames(rh, p) ==
  {n \in DOMAIN createPropertySimplifiers(rh, p) :
     HasRemove(createPropertySimplifiers(rh, p), n)}

\* m removes at every scope what a and b remove there; a sub-rule of one
\* side only is carried over, a sub-rule of both is merged by the same law.
RECURSIVE UnionLaw(_, _, _)
UnionLaw(a, b, m) ==
  /\ RemoveNames(m) = RemoveNames(a) \cup RemoveNames(b)
  /\ DOMAIN m.PropertySimplifiers
       = (DOMAIN a.PropertySimplifiers) \cup (DOMAIN b.PropertySimplifiers)
  /\ \A k \in DOMAIN m.PropertySimplifiers :
       IF k \in DOMAIN a.PropertySimplifiers
       THEN IF k \in DOMAIN b.PropertySimplifiers
            THEN UnionLaw(a.PropertySimplifiers[k], b.PropertySimplifiers[k],
                          m.PropertySimplifiers[k])
            ELSE m.PropertySimplifiers[k] = a.PropertySimplifiers[k]
       ELSE m.PropertySimplifiers[k] = b.PropertySimplifiers[k]

\* C6: at every scope of mergeRules(A, B) the names removed are those of
\* A together with those of B; a nested scope of one side only is carried
\* over unchanged and a nested scope of both sides is merged recursively.
C6_MergeUnion ==
  /\ pc # "ready" =>
       /\ UnionLaw(DocA, DocB, RuleAt(ruleHeap, mergedAB))
       /\ CompiledRemoveNames(ruleHeap, mergedAB)
            = RemoveNames(DocA) \cup RemoveNames(DocB)
  /\ pc = "merged3" =>
       UnionLaw(RuleAt(ruleHeap, mergedAB), DocC, RuleAt(ruleHeap, mergedAB_C))

C6_Witness ==
  /\ pc = "merged"
  /\ (DOMAIN DocA.PropertySimplifiers) \cap (DOMAIN DocB.PropertySimplifiers) # {}
  /\ (DOMAIN DocB.PropertySimplifiers) \ (DOMAIN DocA.PropertySimplifiers) # {}
  /\ RemoveNames(DocA) \ RemoveNames(DocB) # {}
  /\ RemoveNames(DocB) \ RemoveNames(DocA) # {}
  /\ \E k \in DOMAIN DocA.PropertySimplifiers :
       /\ k \in DOMAIN DocB.PropertySimplifiers
       /\ RemoveNames(DocA.PropertySimplifiers[k])
            # RemoveNames(DocB.PropertySimplifiers[k])

\* The sets of names a rule document removes, scope by scope.
RECURSIVE RemovalSets(_)
RemovalSets(doc) ==
  [names |-> RemoveNames(doc),
   scopes |-> [k \in DOMAIN doc.PropertySimplifiers |->
                 RemovalSets(doc.PropertySimplifiers[k])]]

\* C7: merging in either order, and in either grouping, removes the
\* same names at every scope.
C7_MergeCommAssoc ==
  /\ pc # "ready" =>
       RemovalSets(RuleAt(ruleHeap, mergedAB)) = RemovalSets(RuleAt(ruleHeap, mergedBA))
  /\ pc = "merged3" =>
       RemovalSets(RuleAt(ruleHeap, mergedAB_C))
         = RemovalSets(RuleAt(ruleHeap, mergedA_BC))

C7_Witness ==
  /\ pc = "merged3"
  /\ RuleAt(ruleHeap, mergedAB) # RuleAt(ruleHeap, mergedBA)
  /\ RemoveNames(DocC) \ (RemoveNames(DocA) \cup RemoveNames(DocB)) # {}
  /\ DocC.PropertySimplifiers # NoRules
  /\ DocA # DocB /\ DocB # DocC /\ DocA # DocC

\* Every simplifier, its Rule and its rulers are what they were when the
\* simplifier was made, and the last Simplify call returned what the
\* simplifier as made returns.
StillAsCreated ==
  /\ \A i \in DOMAIN simplifiers :
       /\ simplifiers[i] = created[i].impl
       /\ RuleAt(ruleHeap, simplifiers[i].rule) = created[i].doc
       /\ createPropertySimplifiers(ruleHeap, simplifiers[i].rule)
            = created[i].impl.propertySimplifiers
  /\ target # 0 =>
       [v |-> result, h |-> heap, panic |-> FALSE]
         = Simplify(created[target].impl, original, heap0)

\* No Rule object changes once it is allocated.
RulesKept == \A p \in DOMAIN ruleHeap : ruleHeap'[p] = ruleHeap[p]

\* C10: a simplifier is immutable: whatever Simplify and ExtendSimplifier
\* calls are made, its rule tree and its rulers stay what they were when
\* it was made, merging changes neither of the rules merged, and the base
\* simplifier returns the same result before and after being extended.
C10_Immutable == [](StillAsCreated) /\ [][RulesKept]_vars

C10_Witness ==
  /\ Len(simplifiers) = 3
  /\ target = 1
  /\ created[3].doc # created[1].doc
  /\ created[2].doc # created[1].doc
  /\ result # original

\* ---------------------------------------------------------------------
\* Properties of the compilation
\* ---------------------------------------------------------------------
\* The names a rule document declares at its own scope both ways.
DeclaredTwice(doc) == RemoveNames(doc) \cap DOMAIN doc.PropertySimplifiers

\* Whether some scope of the document declares a name both ways.
RECURSIVE Ambiguous(_)
Ambiguous(doc) ==
  \/ DeclaredTwice(doc) # {}
  \/ \E k \in DOMAIN doc.PropertySimplifiers : Ambiguous(doc.PropertySimplifiers[k])

\* In the rulers ps compiled from doc, every name declared both ways has
\* the Remove action, at this scope and at every scope below it.
RECURSIVE RemoveWins(_, _)
RemoveWins(doc, ps) ==
  /\ \A n \in DeclaredTwice(doc) : HasRemove(ps, n)
  /\ \A n \in (DOMAIN doc.PropertySimplifiers) \ RemoveNames(doc) :
       /\ HasDescend(ps, n)
       /\ RemoveWins(doc.PropertySimplifiers[n], ps[n].propertySimplifiers)

\* C12: in every simplifier, made from a document or by extension, a name
\* that a scope declares both in remove_properties and in
\* property_simplifiers is compiled to the Remove action; a record field of
\* that name is cleared by Simplify, not descended into.
C12_RemovalPrecedence ==
  /\ \A i \in DOMAIN simplifiers :
       RemoveWins(RuleAt(ruleHeap, simplifiers[i].rule),
                  simplifiers[i].propertySimplifiers)
  /\ (target # 0 /\ original.kind = "struct") =>
       \A n \in DeclaredTwice(created[target].doc) \cap DOMAIN original.val :
          result.val[n] = Zero(original.val[n])

C12_Witness ==
  /\ target > 1
  /\ original.kind = "struct"
  /\ DeclaredTwice(created[1].doc) = {}
  /\ "A" \in DeclaredTwice(created[target].doc)
  /\ \E i \in DOMAIN simplifiers :
       /\ DeclaredTwice(created[i].doc) = {}
       /\ Ambiguous(created[i].doc)

\* ---------------------------------------------------------------------
\* Properties of the traversal at scopes without a name
\* ---------------------------------------------------------------------
\* C11: Simplify of a scalar returns that scalar, with no error, whatever
\* the rules; Simplify of a sequence (or of a pointer to one) applies no
\* rule to it or to its elements: the result is what the copier alone
\* gives, an element that is a record has the content it had in the
\* input, and no map reached through an element loses a key.
C11_TopLevelInert ==
  /\ (pc # "ready" /\ original.kind = "int") =>
        /\ pc # "panicked"
        /\ result = original
        /\ heap1 = heap0
  /\ (pc = "simplified" /\ Root(original).kind = "slice") =>
        /\ Deref(result, heap1) = Deref(PlainCopy, heap0)
        /\ heap1 = heap0
        /\ Len(Root(result).val) = Len(Root(original).val)
        /\ \A i \in DOMAIN Root(original).val :
             Root(original).val[i].kind = "struct" =>
                Root(result).val[i] = Root(original).val[i]

C11_Witness ==
  /\ pc = "simplified"
  /\ original.kind = "slice"
  /\ Len(original.val) = MaxLen
  /\ original.val[1].kind = "struct"
  /\ original.val[1].val["A"] # IntV(0)
  /\ HasRemove(Compiled, "A")
  /\ HasDescend(Compiled, "B")

\* ---------------------------------------------------------------------
\* Properties of the traversal at names without an action
\* ---------------------------------------------------------------------
\* What the traversal with the rulers ps may have made of in, out being
\* what it left: a field or entry whose name has no action in ps is as it
\* was, with everything below it, and below a Descend action the same
\* holds for the child's rulers.  Maps stand for their content.
RECURSIVE NoImplicit(_, _, _)
NoImplicit(ps, in, out) ==
  LET viaPtr == in.kind = "ptr" /\ ~in.nil
      i == IF viaPtr THEN in.val ELSE in
      o == IF viaPtr /\ out.kind = "ptr" /\ ~out.nil THEN out.val ELSE out
  IN /\ viaPtr => (out.kind = "ptr" /\ ~out.nil)
     /\ CASE i.kind = "struct" ->
               /\ o.kind = "struct"
               /\ DOMAIN o.val = DOMAIN i.val
               /\ \A n \in DOMAIN i.val :
                    IF n \notin DOMAIN ps THEN o.val[n] = i.val[n]
                    ELSE HasDescend(ps, n) =>
                           IF i.val[n].kind = "slice"
                           THEN /\ o.val[n].kind = "slice"
                                /\ Len(o.val[n].val) = Len(i.val[n].val)
                                /\ \A x \in DOMAIN i.val[n].val :
                                     NoImplicit(ps[n].propertySimplifiers,
                                                i.val[n].val[x], o.val[n].val[x])
                           ELSE NoImplicit(ps[n].propertySimplifiers,
                                           i.val[n], o.val[n])
          [] i.kind = "map" /\ ~i.nil ->
               /\ o.kind = "map" /\ ~o.nil
               /\ \A k \in DOMAIN i.val :
                    IF KeyString(k) \notin DOMAIN ps
                    THEN k \in DOMAIN o.val /\ o.val[k] = i.val[k]
                    ELSE HasDescend(ps, KeyString(k)) =>
                           /\ k \in DOMAIN o.val
                           /\ NoImplicit(ps[KeyString(k)].propertySimplifiers,
                                         i.val[k], o.val[k])
          [] OTHER -> o = i

C14_RemovalReachesNested ==
  (pc = "simplified" /\ Root(original).kind = "struct") =>
     \A f \in DOMAIN Root(original).val :
        (f \notin DOMAIN Compiled /\ Exported(f)
           /\ Root(original).val[f].kind = "struct") =>
           \A n \in DOMAIN Root(original).val[f].val :
              HasRemove(Compiled, n) =>
                 Root(result).val[f].val[n] = Zero(Root(original).val[f].val[n])

\* What the child rulers must have made of a map entry's value in, out
\* being the entry's value in the result: in a record (also one held
\* through a pointer) the fields the child removes are cleared, in a map
\* the keys the child removes are gone.  Maps stand for their content.
ChildApplied(child, in, out) ==
  CASE Root(in).kind = "struct" ->
         /\ Root(out).kind = "struct"
         /\ \A f \in DOMAIN Root(in).val :
              HasRemove(child, f) => IsZeroOrEmpty(Root(out).val[f])
    [] Root(in).kind = "map" /\ ~Root(in).nil ->
         /\ Root(out).kind = "map"
         /\ \A key \in DOMAIN Root(in).val :
              HasRemove(child, KeyString(key)) => key \notin DOMAIN Root(out).val
    [] OTHER -> TRUE

\* C15: when Simplify is applied to a map, every present key whose string
\* form has a Descend action is still present in the result and the child
\* rules have been applied to its value, whether the value is a record, a
\* map or a pointer to one.
C15_MapDescent ==
  (pc = "simplified" /\ Root(original).kind = "map" /\ ~Root(original).nil) =>
     LET before == heap0[Root(original).val].m
         after == heap1[Root(result).val].m
     IN \A k \in DOMAIN before :
          HasDescend(Compiled, KeyString(k)) =>
             /\ k \in DOMAIN after
             /\ ChildApplied(Compiled[KeyString(k)].propertySimplifiers,
                             Deref(before[k], heap0), Deref(after[k], heap1))

\* ---------------------------------------------------------------------
\* Properties of the copier on records with unexported fields
\* ---------------------------------------------------------------------
\* Whether the value holds a record with a field that is not exported.
RECURSIVE HasHidden(_)
HasHidden(v) ==
  CASE v.kind = "struct" ->
         \E n \in DOMAIN v.val : ~Exported(n) \/ HasHidden(v.val[n])
    [] v.kind = "slice" -> \E i \in DOMAIN v.val : HasHidden(v.val[i])
    [] v.kind = "ptr" -> ~v.nil /\ HasHidden(v.val)
    [] OTHER -> FALSE

\* The value with every unexported field at the zero value of its type.
RECURSIVE HideZero(_)
HideZero(v) ==
  CASE v.kind = "struct" ->
         StructV([n \in DOMAIN v.val |->
                    IF Exported(n) THEN HideZero(v.val[n]) ELSE Zero(v.val[n])])
    [] v.kind = "slice" -> SliceV([i \in DOMAIN v.val |-> HideZero(v.val[i])])
    [] v.kind = "ptr" -> IF v.nil THEN v ELSE PtrV(HideZero(v.val))
    [] OTHER -> v

\* C16: for an input that holds a record with an unexported field,
\* Simplify completes and returns a value in which every unexported field
\* is at the zero value of its type; with a rule that removes nothing the
\* exported fields are those of the input.
C16_VisibilityBoundedCopy ==
  (pc # "ready" /\ HasHidden(original)) =>
     /\ pc # "panicked"
     /\ HideZero(result) = result
     /\ rule = Rule(<<>>, NoRules) => result = HideZero(original)

====
